---------------------------- MODULE Spec2Model ----------------------------
(***************************************************************************)
(* A model of sudosat (src/main.rs): a Sudoku grid is encoded as a CNF     *)
(* formula, handed to a SAT solver, and the solver's model is decoded      *)
(* back into a grid.                                                       *)
(*                                                                         *)
(* Four specifications share this module:                                  *)
(*   SpecFormula  sudoku_formula(), one innermost loop iteration per step  *)
(*   SpecIndex    the variable index and the decoder's arithmetic          *)
(*   Spec         from_str -> solve -> Display -> from_str on input texts  *)
(*   SpecDecoder  the decoder loop of solve on arbitrary assignments       *)
(*                                                                         *)
(* Characters are Unicode scalar values, a literal of variable v is v+1    *)
(* (positive) or -(v+1) (negative), a clause is the set of its literals,   *)
(* Option<u8> is a sequence of length 0 (None) or 1 (Some).                *)
(***************************************************************************)
EXTENDS Integers, Sequences, FiniteSets, TLC

VARIABLES
    \* SpecFormula
    fphase, it, nUniq, nCover, nGroup, last,
    \* SpecIndex
    iphase, arg, mid, out,
    \* Spec
    phase, base, input, parsed, units, result, shown, reparsed,
    \* SpecDecoder
    dphase, dgrid, dmodel, dresult

fvars == <<fphase, it, nUniq, nCover, nGroup, last>>
ivars == <<iphase, arg, mid, out>>
mvars == <<phase, base, input, parsed, units, result, shown, reparsed>>
dvars == <<dphase, dgrid, dmodel, dresult>>
vars == <<fvars, ivars, mvars, dvars>>

Idle == "idle"
FIdle == fphase = Idle /\ it = <<>> /\ nUniq = 0 /\ nCover = 0 /\ nGroup = 0 /\ last = {}
IIdle == iphase = Idle /\ arg = <<>> /\ mid = <<>> /\ out = <<>>
MIdle ==
    /\ phase = Idle /\ base = <<>> /\ input = <<>> /\ parsed = <<>>
    /\ units = <<>> /\ result = <<>> /\ shown = <<>> /\ reparsed = <<>>
DIdle == dphase = Idle /\ dgrid = <<>> /\ dmodel = {} /\ dresult = <<>>

---------------------------------------------------------------------------
(* Cells, variables, literals *)

None == <<>>
Some(d) == <<d>>

Nine == 0..8
CellIdx == 0..80

\* Var::from_index(y * 81 + x * 9 + d)
VarIndex(y, x, d) == y * 81 + x * 9 + d

Vars == 0..VarIndex(8, 8, 8)

Positive(v) == v + 1
Negative(v) == 0 - (v + 1)
IsPositive(lit) == lit > 0
LitIndex(lit) == IF lit > 0 THEN lit - 1 ELSE (0 - lit) - 1

\* the decoder's arithmetic
DecodeDigit(idx) == (idx % 9) % 256
DecodeXNoWrap(idx) == idx \div 9
DecodeX(idx) == (idx % 81) \div 9
DecodeY(idx) == idx \div 81

\* Grid::get
Get(cells, x, y) == cells[y * 9 + x]

---------------------------------------------------------------------------
(* sudoku_formula: what one iteration of each innermost loop adds *)

\* for a in 0..9 { for b in (a+1)..9 { add [!v_a, !v_b] } }
CellUniqClause(y, x, a, b) == {Negative(VarIndex(y, x, a)), Negative(VarIndex(y, x, b))}

\* select_at_least_one_clause
CellCoverClause(y, x) == {Positive(VarIndex(y, x, v)) : v \in Nine}

\* column loop body: the clauses (none or one) iteration (x, y, d, y2) adds
ColEmit(x, y, d, y2) ==
    IF y /= y2
    THEN {{Negative(VarIndex(y, x, d)), Negative(VarIndex(y2, x, d))}}
    ELSE {}

\* row loop body: the clauses (none or one) iteration (y, x, d, x2) adds
RowEmitHalf(y, x, d, x2) ==
    IF x < x2
    THEN {{Negative(VarIndex(y, x, d)), Negative(VarIndex(y, x2, d))}}
    ELSE {}
RowEmitAsColumn(y, x, d, x2) == ColEmit(y, x, d, x2)
RowEmit(y, x, d, x2) ==
    IF x /= x2
    THEN {{Negative(VarIndex(y, x, d)), Negative(VarIndex(y, x2, d))}}
    ELSE {}

\* block loop: the cell <<row, column>> that position i of block block_idx names
BlockCellTransposed(block_idx, i) ==
    LET x1 == i % 3
        y1 == i \div 3
        bx == block_idx \div 3
        by == block_idx % 3
    IN  <<by * 3 + y1, bx * 3 + x1>>
BlockCell(block_idx, i) ==
    LET x1 == i % 3
        y1 == i \div 3
        bx == block_idx % 3
        by == block_idx \div 3
    IN  <<by * 3 + y1, bx * 3 + x1>>

\* block loop body: the clauses (none or one) iteration (block_idx, i, d, i2) adds
BlockEmit(block_idx, i, d, i2) ==
    IF i /= i2
    THEN LET p == BlockCell(block_idx, i)
             q == BlockCell(block_idx, i2)
         IN  {{Negative(VarIndex(p[1], p[2], d)), Negative(VarIndex(q[1], q[2], d))}}
    ELSE {}

Loop4 == Nine \X Nine \X Nine \X Nine

CellUniqClauses ==
    {CellUniqClause(t[1], t[2], t[3], t[4]) : t \in {u \in Loop4 : u[3] < u[4]}}
CellCoverClauses == {CellCoverClause(t[1], t[2]) : t \in Nine \X Nine}
RowClauses == UNION {RowEmit(t[1], t[2], t[3], t[4]) : t \in Loop4}
ColClauses == UNION {ColEmit(t[1], t[2], t[3], t[4]) : t \in Loop4}
BlockClauses == UNION {BlockEmit(t[1], t[2], t[3], t[4]) : t \in Loop4}

\* the clause set sudoku_formula() returns
SudokuFormula ==
    CellUniqClauses \cup CellCoverClauses \cup RowClauses \cup ColClauses \cup BlockClauses

---------------------------------------------------------------------------
(* SpecFormula: sudoku_formula() step by step.  `it` holds the indices of  *)
(* the iteration about to run, `last` the clause add_clause received last, *)
(* the counters the number of add_clause calls of each family.             *)

\* the next index tuple of four nested 0..9 loops; <<>> after the last one
Succ4(t) ==
    IF t[4] < 8 THEN <<t[1], t[2], t[3], t[4] + 1>>
    ELSE IF t[3] < 8 THEN <<t[1], t[2], t[3] + 1, 0>>
    ELSE IF t[2] < 8 THEN <<t[1], t[2] + 1, 0, 0>>
    ELSE IF t[1] < 8 THEN <<t[1] + 1, 0, 0, 0>>
    ELSE <<>>

\* the next cell of the y, x loops; <<>> after the last one
SuccCell(y, x) ==
    IF x < 8 THEN <<y, x + 1>>
    ELSE IF y < 8 THEN <<y + 1, 0>>
    ELSE <<>>

InitFormula ==
    /\ fphase = "uniq"
    /\ it = <<0, 0, 0, 1>>
    /\ nUniq = 0 /\ nCover = 0 /\ nGroup = 0
    /\ last = {}
    /\ IIdle /\ MIdle /\ DIdle

\* one iteration of `for b in (a + 1)..9`; a = 8 has no iteration
AddCellUniq ==
    /\ fphase = "uniq"
    /\ last' = CellUniqClause(it[1], it[2], it[3], it[4])
    /\ nUniq' = nUniq + 1
    /\ IF it[4] < 8
       THEN it' = <<it[1], it[2], it[3], it[4] + 1>> /\ fphase' = "uniq"
       ELSE IF it[3] + 1 < 8
            THEN it' = <<it[1], it[2], it[3] + 1, it[3] + 2>> /\ fphase' = "uniq"
            ELSE it' = <<it[1], it[2]>> /\ fphase' = "cover"
    /\ UNCHANGED <<nCover, nGroup, ivars, mvars, dvars>>

\* formula.add_clause(&select_at_least_one_clause), then the next cell
AddCellCover ==
    /\ fphase = "cover"
    /\ last' = CellCoverClause(it[1], it[2])
    /\ nCover' = nCover + 1
    /\ IF SuccCell(it[1], it[2]) /= <<>>
       THEN it' = SuccCell(it[1], it[2]) \o <<0, 1>> /\ fphase' = "uniq"
       ELSE it' = <<0, 0, 0, 0>> /\ fphase' = "row"
    /\ UNCHANGED <<nUniq, nGroup, ivars, mvars, dvars>>

GroupIter(ph, emit, nextph) ==
    /\ fphase = ph
    /\ last' = IF emit = {} THEN last ELSE CHOOSE c \in emit : TRUE
    /\ nGroup' = nGroup + Cardinality(emit)
    /\ IF Succ4(it) /= <<>>
       THEN it' = Succ4(it) /\ fphase' = ph
       ELSE it' = (IF nextph = "done" THEN <<>> ELSE <<0, 0, 0, 0>>) /\ fphase' = nextph
    /\ UNCHANGED <<nUniq, nCover, ivars, mvars, dvars>>

RowIter == GroupIter("row", RowEmit(it[1], it[2], it[3], it[4]), "col")
ColIter == GroupIter("col", ColEmit(it[1], it[2], it[3], it[4]), "block")
BlockIter == GroupIter("block", BlockEmit(it[1], it[2], it[3], it[4]), "done")

NextFormula == AddCellUniq \/ AddCellCover \/ RowIter \/ ColIter \/ BlockIter

SpecFormula == InitFormula /\ [][NextFormula]_vars


\* C6 (as claimed).  When sudoku_formula has finished, the row, column and
\* block loops together have added 27 groups x 9 digits x 36 pairs = 8748
\* clauses.
C6_Original_Count8748 == fphase = "done" => nGroup = 27 * 9 * 36

\* a clause !var(p,d) \/ !var(q,d) for two distinct cells p, q of one row,
\* column or block
IsGroupPairClause(c) ==
    /\ Cardinality(c) = 2
    /\ \A l \in c : l < 0
    /\ \A l1, l2 \in c :
         l1 /= l2 =>
           LET u == (0 - l1) - 1
               v == (0 - l2) - 1
               r1 == u \div 81
               r2 == v \div 81
               c1 == (u % 81) \div 9
               c2 == (v % 81) \div 9
           IN  /\ u % 9 = v % 9
               /\ <<r1, c1>> /= <<r2, c2>>
               /\ \/ r1 = r2
                  \/ c1 = c2
                  \/ (r1 \div 3 = r2 \div 3 /\ c1 \div 3 = c2 \div 3)

\* C6 (amended).  The row, column and block loops add 27 groups x 9 digits
\* x 72 ordered pairs = 17496 clauses (each of the 36 unordered pairs of a
\* group in both orders), and every clause they add is !var(p,d) \/ !var(q,d)
\* for two distinct cells p, q of one group.
C6_GroupFamily ==
    /\ (fphase \in {"row", "col", "block", "done"} /\ nGroup > 0) => IsGroupPairClause(last)
    /\ fphase \in {"uniq", "cover"} => nGroup = 0
    /\ fphase = "done" => nGroup = 27 * 9 * 72

C6_Witness == fphase = "done" /\ nGroup = 17496 /\ IsGroupPairClause(last)

\* block index of a cell <<row, column>>: (row/3)*3 + column/3
BlockOf(cell) == (cell[1] \div 3) * 3 + (cell[2] \div 3)

\* C9.  While the block loop runs, the nine cells it visits for the current
\* block_idx are exactly the cells whose block index is block_idx (so the
\* nine blocks partition the 81 cells), and for the current digit every
\* pair of distinct cells with that block index gets an exclusivity clause.
C9_BlockLoop ==
    fphase = "block" =>
      LET b == it[1]
          d == it[3]
          inBlock == {c \in Nine \X Nine : BlockOf(c) = b}
          emitted == UNION {BlockEmit(b, i[1], d, i[2]) : i \in Nine \X Nine}
      IN  /\ {BlockCell(b, i) : i \in Nine} = inBlock
          /\ Cardinality(inBlock) = 9
          /\ \A p, q \in inBlock :
               p /= q => {Negative(VarIndex(p[1], p[2], d)),
                          Negative(VarIndex(q[1], q[2], d))} \in emitted

C9_Witness ==
    /\ fphase = "block"
    /\ it = <<8, 8, 8, 8>>
    /\ last = {Negative(VarIndex(8, 8, 8)), Negative(VarIndex(8, 7, 8))}

---------------------------------------------------------------------------
(* SpecIndex: the variable index and the decoder's arithmetic applied to   *)
(* every triple and every id, one after the other.                         *)

Encode(t) == VarIndex(t[1], t[2], t[3])
\* <<row, column, digit>> as the decoder computes them from var.index()
Decode(id) == <<DecodeY(id), DecodeX(id), DecodeDigit(id)>>

InitIndex ==
    /\ iphase = "input"
    /\ arg \in {<<"triple", t>> : t \in Nine \X Nine \X Nine} \cup {<<"id", v>> : v \in Vars}
    /\ mid = <<>>
    /\ out = <<>>
    /\ FIdle /\ MIdle /\ DIdle

EncodeStep ==
    /\ \/ (iphase = "input" /\ arg[1] = "triple" /\ mid' = <<Encode(arg[2])>>
             /\ out' = out /\ iphase' = "half")
       \/ (iphase = "half" /\ arg[1] = "id" /\ out' = <<Encode(mid[1])>>
             /\ mid' = mid /\ iphase' = "full")
    /\ UNCHANGED <<arg, fvars, mvars, dvars>>

DecodeStep ==
    /\ \/ (iphase = "input" /\ arg[1] = "id" /\ mid' = <<Decode(arg[2])>>
             /\ out' = out /\ iphase' = "half")
       \/ (iphase = "half" /\ arg[1] = "triple" /\ out' = <<Decode(mid[1])>>
             /\ mid' = mid /\ iphase' = "full")
    /\ UNCHANGED <<arg, fvars, mvars, dvars>>

NextIndex == EncodeStep \/ DecodeStep

SpecIndex == InitIndex /\ [][NextIndex]_vars

\* C4.  decode(encode(r,c,d)) = (r,c,d) for all r,c,d in 0..8 and
\* encode(decode(id)) = id for all id in 0..728; encode lands in [0,729) and
\* decode in {0..8}^3.
C4_Bijection ==
    /\ (iphase = "half" /\ arg[1] = "triple") => mid[1] \in 0..728
    /\ (iphase = "half" /\ arg[1] = "id") => mid[1] \in Nine \X Nine \X Nine
    /\ iphase = "full" => out[1] = arg[2]

C4_Witness ==
    \/ iphase = "full" /\ arg = <<"triple", <<8, 0, 8>>>> /\ out = <<<<8, 0, 8>>>>
    \/ iphase = "full" /\ arg = <<"id", 728>> /\ mid = <<<<8, 8, 8>>>> /\ out = <<728>>

---------------------------------------------------------------------------
(* Characters *)

CharNewline == 10
CharSpace == 32
CharDash == 45
CharZero == 48
CharOne == 49
CharNine == 57
CharBar == 124

Range(f) == {f[i] : i \in DOMAIN f}
Min(S) == CHOOSE a \in S : \A b \in S : a <= b

\* char::to_digit(10)
ToDigit10(c) == IF c >= CharZero /\ c <= CharNine THEN Some(c - CharZero) ELSE None

---------------------------------------------------------------------------
(* impl FromStr for Grid *)

\* the closure of the map: one character to Ok(Cell) or Err(message);
\* `d as u8 - 1` overflows (a panic in the test profile) when d = 0
ParseCharFromZero(c) ==
    IF c >= CharZero /\ c <= CharNine
    THEN LET d == ToDigit10(c)
         IN  IF d = None THEN [kind |-> "Err", msg |-> "invalid digit"]
             ELSE IF d[1] % 256 < 1 THEN [kind |-> "Panic"]
             ELSE [kind |-> "Ok", cell |-> Some((d[1] % 256) - 1)]
    ELSE IF c = CharSpace THEN [kind |-> "Ok", cell |-> None]
    ELSE [kind |-> "Err", msg |-> "invalid character"]
ParseChar(c) ==
    IF c >= CharOne /\ c <= CharNine
    THEN LET d == ToDigit10(c)
         IN  IF d = None THEN [kind |-> "Err", msg |-> "invalid digit"]
             ELSE IF d[1] % 256 < 1 THEN [kind |-> "Panic"]
             ELSE [kind |-> "Ok", cell |-> Some((d[1] % 256) - 1)]
    ELSE IF c = CharSpace THEN [kind |-> "Ok", cell |-> None]
    ELSE [kind |-> "Err", msg |-> "invalid character"]

\* collect::<Result<Vec<Cell>, _>>()? stops at the first character that is
\* not Ok; try_into() then fails unless the Vec holds exactly 81 cells
FromStr(s) ==
    LET bad == {i \in 1..Len(s) : ParseChar(s[i]).kind /= "Ok"}
    IN  IF bad /= {} THEN ParseChar(s[Min(bad)])
        ELSE IF Len(s) /= 81 THEN [kind |-> "Err", msg |-> "failed to convert"]
        ELSE [kind |-> "Ok", cells |-> [i \in CellIdx |-> ParseChar(s[i + 1]).cell]]

---------------------------------------------------------------------------
(* impl Display for Grid *)

\* the decimal text of a u8, as "{}" writes it
FormatU8(n) ==
    IF n < 10 THEN <<CharZero + n>>
    ELSE IF n < 100 THEN <<CharZero + (n \div 10), CharZero + (n % 10)>>
    ELSE <<CharZero + (n \div 100), CharZero + ((n \div 10) % 10), CharZero + (n % 10)>>

\* what the body of `for x in 0..9` writes for cell (x, y)
ShowCellZeroBased(cells, x, y) ==
    (IF Get(cells, x, y) = None THEN <<CharSpace>>
     ELSE FormatU8(Get(cells, x, y)[1]) \o <<CharSpace>>)
    \o (IF x < 8 /\ (x + 1) % 3 = 0 THEN <<CharBar, CharSpace>> ELSE <<>>)
ShowCell(cells, x, y) ==
    (IF Get(cells, x, y) = None THEN <<CharSpace>>
     ELSE FormatU8(Get(cells, x, y)[1] + 1) \o <<CharSpace>>)
    \o (IF x < 8 /\ (x + 1) % 3 = 0 THEN <<CharBar, CharSpace>> ELSE <<>>)

RECURSIVE ShowCells(_, _, _)
\* the cells x.. of row y
ShowCells(cells, x, y) ==
    IF x > 8 THEN <<>> ELSE ShowCell(cells, x, y) \o ShowCells(cells, x + 1, y)

\* what the body of `for y in 0..9` writes
ShowRow(cells, y) ==
    ShowCells(cells, 0, y) \o <<CharNewline>>
    \o (IF y < 8 /\ (y + 1) % 3 = 0
        THEN [i \in 1..21 |-> CharDash] \o <<CharNewline>>
        ELSE <<>>)

RECURSIVE ShowRows(_, _)
ShowRows(cells, y) == IF y > 8 THEN <<>> ELSE ShowRow(cells, y) \o ShowRows(cells, y + 1)

Display(cells) == ShowRows(cells, 0)

---------------------------------------------------------------------------
(* Grid::solve: the given-digit loop *)

\* the body of the loop for cell (x, y): the unit clauses it adds
GivenUnitTransposed(cells, y, x) ==
    IF Get(cells, x, y) /= None
    THEN <<{Positive(VarIndex(x, y, Get(cells, x, y)[1]))}>>
    ELSE <<>>
GivenUnitSkipZero(cells, y, x) ==
    IF Get(cells, x, y) /= None /\ Get(cells, x, y)[1] > 0
    THEN <<{Positive(VarIndex(y, x, Get(cells, x, y)[1]))}>>
    ELSE <<>>
GivenUnit(cells, y, x) ==
    IF Get(cells, x, y) /= None
    THEN <<{Positive(VarIndex(y, x, Get(cells, x, y)[1]))}>>
    ELSE <<>>

RECURSIVE GivenRange(_, _, _)
\* the clauses iterations lo..hi of the (y, x) loops add, in order;
\* iteration k is cell (x, y) = (k % 9, k / 9)
GivenRange(cells, lo, hi) ==
    IF lo = hi THEN GivenUnit(cells, lo \div 9, lo % 9)
    ELSE GivenRange(cells, lo, (lo + hi) \div 2) \o GivenRange(cells, (lo + hi) \div 2 + 1, hi)

\* the clauses solver.add_clause receives, in order
GivenClauses(cells) == GivenRange(cells, 0, 80)

---------------------------------------------------------------------------
(* The SAT solver (varisat), by its contract: solve() answers whether the  *)
(* clauses added are satisfiable, model() is an assignment that satisfies  *)
(* every one of them.  SolverModels enumerates all such assignments, each  *)
(* as the set of its true variables: it splits the formula into its        *)
(* two-negative-literal clauses (indexed by variable) and the rest, and    *)
(* branches on the variables the unit clauses leave open.                  *)

NegPairs == {c \in SudokuFormula : Cardinality(c) = 2 /\ \A l \in c : l < 0}
RestClauses == SudokuFormula \ NegPairs

\* the variables that cannot be true together with v
BinNeg == [v \in Vars |-> {u \in Vars : u /= v /\ {Negative(v), Negative(u)} \in NegPairs}]

\* clause c can still be satisfied with T true and F undecided
Open(T, F, c) == \E l \in c : IF l > 0 THEN (l - 1) \in (T \cup F) ELSE ((0 - l) - 1) \notin T

RECURSIVE Search(_, _, _)
Search(T, F, others) ==
    IF \E c \in others : ~Open(T, F, c) THEN {}
    ELSE IF F = {} THEN {T}
    ELSE LET v == CHOOSE u \in F : TRUE
         IN  Search(T \cup {v}, F \ ({v} \cup BinNeg[v]), others)
             \cup Search(T, F \ {v}, others)

\* every assignment satisfying SudokuFormula and the clauses of `added`
SolverModels(added) ==
    LET given == Range(added)
        T0 == {v \in Vars : {Positive(v)} \in given}
        others == RestClauses \cup (given \ {{Positive(v)} : v \in T0})
        F0 == Vars \ (T0 \cup UNION {BinNeg[v] : v \in T0})
    IN  IF \E v \in T0 : BinNeg[v] \cap T0 /= {} THEN {}
        ELSE Search(T0, F0, others)

\* solver.model(): one literal per variable, in index order
ModelLits(m) ==
    [i \in 1..Cardinality(Vars) |-> IF (i - 1) \in m THEN Positive(i - 1) ELSE Negative(i - 1)]

---------------------------------------------------------------------------
(* Grid::solve: the decoder loop *)

\* the body of `for var in model`; st.kind = "Panic" once the loop has
\* panicked (unreachable!, or an index outside the array)
DecodeLit(st, lit) ==
    IF st.kind /= "Ok" \/ ~IsPositive(lit) THEN st
    ELSE LET digit == DecodeDigit(LitIndex(lit))
             x == DecodeX(LitIndex(lit))
             y == DecodeY(LitIndex(lit))
         IN  IF (y * 9 + x) \notin CellIdx
             THEN [st EXCEPT !.kind = "Panic", !.why = "index out of bounds"]
             ELSE IF st.cells[y * 9 + x] /= None /\ st.cells[y * 9 + x][1] /= digit
             THEN [kind |-> "Panic", why |-> "decided something else!",
                   cells |-> [st.cells EXCEPT ![y * 9 + x] = Some(digit)]]
             ELSE [st EXCEPT !.cells[y * 9 + x] = Some(digit)]

RECURSIVE DecodeRange(_, _, _, _)
\* the loop over lits[lo..hi], in order; nothing runs after a panic
DecodeRange(st, lits, lo, hi) ==
    IF lo = hi THEN DecodeLit(st, lits[lo])
    ELSE LET half == (lo + hi) \div 2
             left == DecodeRange(st, lits, lo, half)
         IN  IF left.kind = "Panic" THEN left
             ELSE DecodeRange(left, lits, half + 1, hi)

\* lines 118-134: Ok(self) unless the loop panicked
Decoder(cells, m) ==
    DecodeRange([kind |-> "Ok", why |-> "", cells |-> cells], ModelLits(m), 1, Cardinality(Vars))

\* what Grid::solve can return (or panic with) for a grid
SolveOutcomes(cells) ==
    LET ms == SolverModels(GivenClauses(cells))
    IN  IF ms = {} THEN {[kind |-> "Err", why |-> "", cells |-> <<>>]}
        ELSE {Decoder(cells, m) : m \in ms}

---------------------------------------------------------------------------
(* Spec: an input text is parsed, solved, displayed and parsed again.      *)
(* The input texts are the solved test puzzle (SolvedText), the same with  *)
(* eight cells blanked that leave four solutions (HolesText) and the same  *)
(* with four cells blanked that leave one (CrossText), each with up to     *)
(* MaxEdits characters at EditablePos replaced, or up to MaxLenDelta       *)
(* characters dropped from or appended to its end.                         *)

MaxEdits == 2
MaxLenDelta == 1

\* the solution of the puzzle of test_solve, as displayed digits
SolvedDigits == <<
    8, 1, 2, 7, 5, 3, 6, 4, 9,
    9, 4, 3, 6, 8, 2, 1, 7, 5,
    6, 7, 5, 4, 9, 1, 2, 8, 3,
    1, 5, 4, 2, 3, 7, 8, 9, 6,
    3, 6, 9, 8, 4, 5, 7, 2, 1,
    2, 8, 7, 1, 6, 9, 5, 3, 4,
    5, 2, 1, 9, 7, 4, 3, 6, 8,
    4, 3, 8, 5, 2, 6, 9, 1, 7,
    7, 9, 6, 3, 1, 8, 4, 5, 2 >>

SolvedText == [i \in 1..81 |-> CharZero + SolvedDigits[i]]
\* cells (2,0), (5,0), (2,1), (5,1) hold 2 3 / 3 2 and cells (0,3), (3,3),
\* (0,5), (3,5) hold 1 2 / 2 1: either rectangle can be swapped
HolePos == {3, 6, 12, 15, 28, 31, 46, 49}
HolesText == [i \in 1..81 |-> IF i \in HolePos THEN CharSpace ELSE SolvedText[i]]
\* cells (4,0), (6,0), (4,5), (6,5) hold 5 6 / 6 5 in four different blocks:
\* swapping them keeps every row and column valid and breaks four blocks
CrossPos == {5, 7, 50, 52}
CrossText == [i \in 1..81 |-> IF i \in CrossPos THEN CharSpace ELSE SolvedText[i]]
BaseTexts == {SolvedText, HolesText, CrossText}

\* the characters of cells (0,0), (1,0), (0,1), (1,1)
EditablePos == {1, 2, 10, 11}
EditChars == {CharSpace, CharZero, CharNine + 1} \cup (CharOne..CharNine)

Distance(a, b) == Cardinality({i \in 1..81 : a[i] /= b[i]})

Init ==
    /\ phase = "input"
    /\ base \in BaseTexts
    /\ input = base
    /\ parsed = <<>> /\ units = <<>> /\ result = <<>> /\ shown = <<>> /\ reparsed = <<>>
    /\ FIdle /\ IIdle /\ DIdle

EditChar ==
    /\ phase = "input"
    /\ Len(input) = 81
    /\ \E p \in EditablePos, c \in EditChars :
         /\ c /= input[p]
         /\ Distance([input EXCEPT ![p] = c], base) <= MaxEdits
         /\ input' = [input EXCEPT ![p] = c]
    /\ UNCHANGED <<phase, base, parsed, units, result, shown, reparsed, fvars, ivars, dvars>>

Truncate ==
    /\ phase = "input"
    /\ Len(input) <= 81
    /\ Len(input) > 81 - MaxLenDelta
    /\ input = SubSeq(base, 1, Len(input))
    /\ input' = SubSeq(input, 1, Len(input) - 1)
    /\ UNCHANGED <<phase, base, parsed, units, result, shown, reparsed, fvars, ivars, dvars>>

Extend ==
    /\ phase = "input"
    /\ Len(input) >= 81
    /\ Len(input) < 81 + MaxLenDelta
    /\ SubSeq(input, 1, 81) = base
    /\ \E c \in EditChars : input' = Append(input, c)
    /\ UNCHANGED <<phase, base, parsed, units, result, shown, reparsed, fvars, ivars, dvars>>

\* let grid: Grid = input.parse()
Parse ==
    /\ phase = "input"
    /\ parsed' = FromStr(input)
    /\ phase' = "parsed"
    /\ UNCHANGED <<base, input, units, result, shown, reparsed, fvars, ivars, dvars>>

\* grid.solve()
Solve ==
    /\ phase = "parsed"
    /\ parsed.kind = "Ok"
    /\ units' = GivenClauses(parsed.cells)
    /\ \E r \in SolveOutcomes(parsed.cells) : result' = r
    /\ phase' = "solved"
    /\ UNCHANGED <<base, input, parsed, shown, reparsed, fvars, ivars, dvars>>

\* println!("{grid}")
Show ==
    /\ phase = "solved"
    /\ result.kind = "Ok"
    /\ shown' = Display(result.cells)
    /\ phase' = "shown"
    /\ UNCHANGED <<base, input, parsed, units, result, reparsed, fvars, ivars, dvars>>

\* the display output without its '| ' separators, dash lines, newlines and
\* the space after each digit
Strip(s) ==
    LET withPrev == [i \in 1..Len(s) |-> <<IF i = 1 THEN CharNewline ELSE s[i - 1], s[i]>>]
        Keep(pc) ==
            /\ pc[2] \notin {CharBar, CharDash, CharNewline}
            /\ ~(pc[2] = CharSpace /\ (pc[1] = CharBar \/ (pc[1] >= CharZero /\ pc[1] <= CharNine)))
        kept == SelectSeq(withPrev, Keep)
    IN  [i \in 1..Len(kept) |-> kept[i][2]]

Reparse ==
    /\ phase = "shown"
    /\ reparsed' = FromStr(Strip(shown))
    /\ phase' = "reparsed"
    /\ UNCHANGED <<base, input, parsed, units, result, shown, fvars, ivars, dvars>>

Next == EditChar \/ Truncate \/ Extend \/ Parse \/ Solve \/ Show \/ Reparse

Spec == Init /\ [][Next]_vars

AfterSolve == phase \in {"solved", "shown", "reparsed"}

\* digit d occurs exactly once among the cells (<<row, column>> pairs) of group
OnceIn(cells, group, d) ==
    Cardinality({c \in group : Get(cells, c[2], c[1]) = Some(d)}) = 1

Groups ==
    {{<<y, x>> : x \in Nine} : y \in Nine}
    \cup {{<<y, x>> : y \in Nine} : x \in Nine}
    \cup {{c \in Nine \X Nine : BlockOf(c) = b} : b \in Nine}

\* the clauses of sudoku_formula() with a positive literal
PositiveClauses == {c \in SudokuFormula : \E l \in c : l > 0}

\* C1.  Whenever solve returns Ok(g), every cell of g is filled and every
\* row, column and block holds each digit 0..8 exactly once, although every
\* clause of the formula with a positive literal speaks of one cell only
\* (there is no 'each digit at least once per group' clause).
C1_SolvedGridValid ==
    (AfterSolve /\ result.kind = "Ok") =>
      /\ \A i \in CellIdx : result.cells[i] /= None /\ result.cells[i][1] \in Nine
      /\ \A g \in Groups : \A d \in Nine : OnceIn(result.cells, g, d)
      /\ Cardinality(Groups) = 27
      /\ \A c \in PositiveClauses :
           \A l1, l2 \in c : l1 > 0 /\ (l1 - 1) \div 9 = (l2 - 1) \div 9

\* a solution other than the one the base text was taken from
C1_Witness ==
    /\ phase = "solved"
    /\ result.kind = "Ok"
    /\ Cardinality({i \in CellIdx : parsed.cells[i] = None}) = 10
    /\ Get(result.cells, 2, 0) = Some(2)
    /\ Get(result.cells, 0, 3) = Some(1)
    /\ \A g \in Groups : \A d \in Nine : OnceIn(result.cells, g, d)

Givens(cells) == {c \in Nine \X Nine : Get(cells, c[2], c[1]) /= None}

\* C2.  Whenever solve returns Ok(g), every cell given in the input holds
\* the same digit in g; and the clauses solve adds are exactly one positive
\* unit clause on variable y*81 + x*9 + d per given, none for an empty cell.
C2_GivensKept ==
    AfterSolve =>
      /\ result.kind = "Ok" =>
           \A i \in CellIdx : parsed.cells[i] /= None => result.cells[i] = parsed.cells[i]
      /\ Len(units) = Cardinality(Givens(parsed.cells))
      /\ Range(units) =
           {{(c[1] * 81 + c[2] * 9 + Get(parsed.cells, c[2], c[1])[1]) + 1} :
              c \in Givens(parsed.cells)}

C2_Witness ==
    /\ phase = "solved"
    /\ result.kind = "Ok"
    /\ Len(units) = 79
    /\ parsed.cells[0] = None /\ parsed.cells[9] = None
    /\ units[1] = {Positive(VarIndex(0, 1, 0))}
    /\ result.cells[1] = Some(0)

HasRowDuplicate(cells) ==
    \E y \in Nine : \E x1, x2 \in Nine :
      x1 /= x2 /\ Get(cells, x1, y) /= None /\ Get(cells, x1, y) = Get(cells, x2, y)

\* C3.  For a grid with the same digit given twice in one row, solve
\* returns Err(()): neither Ok nor a panic.
C3_RowDuplicateIsErr ==
    (AfterSolve /\ HasRowDuplicate(parsed.cells)) => result.kind = "Err"

\* cells (0,0) and (1,0) both preset to the digit displayed as 5
C3_Witness ==
    /\ phase = "solved"
    /\ Get(parsed.cells, 0, 0) = Some(4)
    /\ Get(parsed.cells, 1, 0) = Some(4)
    /\ result.kind = "Err"

\* C5.  from_str returns Err, and never panics, exactly when the input
\* holds a character outside ' ', '1'..'9' or is not 81 characters long;
\* otherwise the grid has 81 cells in input order, ' ' empty and 'k' the
\* digit k-1 in 0..8.
C5_FromStr ==
    phase /= "input" =>
      LET badChar == \E i \in 1..Len(input) : input[i] \notin ({32} \cup (49..57))
      IN  /\ parsed.kind \in {"Ok", "Err"}
          /\ parsed.kind = "Err" <=> (badChar \/ Len(input) /= 81)
          /\ parsed.kind = "Ok" =>
               /\ DOMAIN parsed.cells = 0..80
               /\ \A i \in 0..80 :
                    /\ input[i + 1] = 32 => parsed.cells[i] = None
                    /\ input[i + 1] /= 32 =>
                         /\ parsed.cells[i] = Some(input[i + 1] - 49)
                         /\ parsed.cells[i][1] \in 0..8

C5_Witness ==
    /\ phase = "parsed"
    /\ Len(input) = 81
    /\ input[2] = 48
    /\ input[10] = 32
    /\ parsed = [kind |-> "Err", msg |-> "invalid character"]

\* C8.  For a solved grid (all cells filled), the display output without
\* separators, divider lines, padding and newlines parses to the same grid.
C8_RoundTrip ==
    (phase = "reparsed" /\ \A i \in CellIdx : result.cells[i] /= None) =>
      /\ Len(Strip(shown)) = 81
      /\ reparsed.kind = "Ok"
      /\ reparsed.cells = result.cells

C8_Witness ==
    /\ phase = "reparsed"
    /\ Len(shown) = 9 * 23 + 2 * 22
    /\ reparsed.kind = "Ok"
    /\ reparsed.cells = result.cells
    /\ parsed.cells /= result.cells

\* C10.  With an assignment that satisfies the formula and the given unit
\* clauses the decoder never panics: no cell is overwritten with another
\* digit and no variable decodes to a cell outside the grid.
C10_DecoderNeverPanics ==
    AfterSolve => /\ result.kind \in {"Ok", "Err"}
                  /\ result.why = ""

C10_Witness ==
    /\ phase = "solved"
    /\ result.kind = "Ok"
    /\ Len(units) = 73
    /\ Get(result.cells, 2, 0) = Some(1)
    /\ Get(result.cells, 0, 3) = Some(1)

---------------------------------------------------------------------------
(* SpecDecoder: the decoder loop handed an arbitrary assignment: the       *)
(* solved grid's assignment with up to MaxFlips variables flipped, for the *)
(* solved grid, the grid with holes and the empty grid.                    *)

MaxFlips == 1

SolvedModel == {VarIndex((i - 1) \div 9, (i - 1) % 9, SolvedDigits[i] - 1) : i \in 1..81}
EmptyGrid == [i \in CellIdx |-> None]
DecoderGrids == {FromStr(SolvedText).cells, FromStr(HolesText).cells, EmptyGrid}

InitDecoder ==
    /\ dphase = "handed"
    /\ dgrid \in DecoderGrids
    /\ dmodel = SolvedModel
    /\ dresult = <<>>
    /\ FIdle /\ IIdle /\ MIdle

Flip ==
    /\ dphase = "handed"
    /\ \E v \in Vars :
         LET m == IF v \in dmodel THEN dmodel \ {v} ELSE dmodel \cup {v}
         IN  /\ Cardinality((m \ SolvedModel) \cup (SolvedModel \ m)) <= MaxFlips
             /\ dmodel' = m
    /\ UNCHANGED <<dphase, dgrid, dresult, fvars, ivars, mvars>>

\* lines 118-134 with `model` = ModelLits(dmodel)
DecodeAny ==
    /\ dphase = "handed"
    /\ dresult' = Decoder(dgrid, dmodel)
    /\ dphase' = "decoded"
    /\ UNCHANGED <<dgrid, dmodel, fvars, ivars, mvars>>

NextDecoder == Flip \/ DecodeAny

SpecDecoder == InitDecoder /\ [][NextDecoder]_vars

\* C7.  When the decoder has processed every positive literal and a cell is
\* still unset, solve halts with a fatal failure: it does not return Ok
\* with an empty cell, whatever assignment the decoder was handed.
C7_UnsetCellHalts ==
    (dphase = "decoded" /\ \E i \in CellIdx : dresult.cells[i] = None) =>
      dresult.kind = "Panic"

=============================================================================
